---- MODULE Spec2Model ----
(***************************************************************************)
(* Model of joycontrol/protocol.go: the Protocol engine of go-joysticker.  *)
(* One Protocol value, its buffered report queue and the three goroutines  *)
(* that Setup starts: sendEmptyReport (bootstrap), processInputQueue       *)
(* (writer) and readOutputReport (reader).  A goroutine's position is a    *)
(* program counter; a send on the full queue and a receive on the empty    *)
(* queue are the only places where a goroutine waits.                      *)
(*                                                                         *)
(* The report codec (AllocStandardReport, fillStandardData, ack*, load,    *)
(* getSubcommand, getSubcommandData) is not part of protocol.go: a report  *)
(* is the record of the calls protocol.go makes on it.                     *)
(***************************************************************************)
EXTENDS Integers, Sequences, FiniteSets, TLC

(***************************************************************************)
(* Bounds of the model.                                                    *)
(***************************************************************************)
\* host frames read in a run whose host sends any frame of AllFrames
MaxFrames == 2
\* host frames read in a run whose host sends only the frames of LoadFrames
MaxLoadFrames == 6
\* host frames read in a run whose host sends only the frames of FairFrames
MaxFairFrames == 5
\* the wall clock runs from 0 to MaxNow in steps of ClockStep
MaxNow == 4
ClockStep == 4

(***************************************************************************)
(* Program constants.                                                      *)
(***************************************************************************)
\* make(chan *InputReport, 5)
QueueCap == 5
\* time.Duration saturates at its largest value when lastTime is the zero
\* time.Time; the low ten bits of that value are all ones, as here
MaxDuration == 2147483647

\* the zero time.Time of a new Protocol
ZeroTime == -1

\* output report ids
RumbleAndSubcommand == "RumbleAndSubcommand"
UpdateNFCPacket == "UpdateNFCPacket"
RumbleOnly == "RumbleOnly"
RequestNFCData == "RequestNFCData"
OtherOutputId == "OtherOutputId"

OutputIds == {RumbleAndSubcommand, UpdateNFCPacket, RumbleOnly, RequestNFCData, OtherOutputId}

\* input report ids
StandardFullMode == "StandardFullMode"
SubcommandReplies == "SubcommandReplies"

\* subcommand ids
RequestDeviceInfo == "RequestDeviceInfo"
SetInputReportMode == "SetInputReportMode"
TriggerButtonsElapsedTime == "TriggerButtonsElapsedTime"
SetShipmentLowPowerState == "SetShipmentLowPowerState"
SpiFlashRead == "SpiFlashRead"
SetNfcMcuConfig == "SetNfcMcuConfig"
SetNfcMcuState == "SetNfcMcuState"
SetPlayerLights == "SetPlayerLights"
EnableImu == "EnableImu"
EnableVibration == "EnableVibration"
\* an id outside the switch of processSubcommandReport, such as 0x99
UnknownSubcommand == "UnknownSubcommand"

RecognizedSubcommands ==
    {RequestDeviceInfo, SetInputReportMode, TriggerButtonsElapsedTime,
     SetShipmentLowPowerState, SpiFlashRead, SetNfcMcuConfig, SetNfcMcuState,
     SetPlayerLights, EnableImu, EnableVibration}

\* results of output.load other than a frame
EAGAIN == "EAGAIN"
errEmptyData == "errEmptyData"
errBadLengthData == "errBadLengthData"
errMalformedData == "errMalformedData"
errOther == "errOther"

FramingErrors == {errEmptyData, errBadLengthData, errMalformedData}

\* a field of a report that no call has set
Unset == "unset"
\* no frame loaded yet
NoFrame == [id |-> Unset, sub |-> Unset, d0 |-> 0]

\* arguments of Setup
Handles == {3}
MacAddrs == {"AA:BB:CC:DD:EE:FF"}
NoHandle == -1
NoMac == "nil"

(***************************************************************************)
(* Host frames: report id, subcommand id and byte 0 of the subcommand      *)
(* data.  The data byte is read by answerEnableImu only.                   *)
(***************************************************************************)
Frame(i, s, d) == [id |-> i, sub |-> s, d0 |-> d]

AllFrames ==
    {Frame(RumbleAndSubcommand, s, 0) : s \in (RecognizedSubcommands \cup {UnknownSubcommand})}
    \cup {Frame(RumbleAndSubcommand, EnableImu, d) : d \in {1, 2}}
    \cup {Frame(i, Unset, 0) : i \in OutputIds \ {RumbleAndSubcommand}}

LoadFrames ==
    {Frame(RumbleAndSubcommand, RequestDeviceInfo, 0),
     Frame(RumbleAndSubcommand, EnableImu, 1)}

FairFrames ==
    {Frame(RumbleAndSubcommand, SetPlayerLights, 0), Frame(RumbleOnly, Unset, 0)}

\* the host of the runs in which the writer is scheduled fairly
FairHost == [frames |-> FairFrames, budget |-> MaxFairFrames]

\* the hosts of a run: the frames it sends and how many of them
Hosts == {[frames |-> AllFrames, budget |-> MaxFrames],
          [frames |-> LoadFrames, budget |-> MaxLoadFrames],
          FairHost}

VARIABLES
    \* fields of Protocol
    lastTime, elapsed, reportReceived, deviceInfoRequired, imuEnabled,
    queue, output, itr, ctrl, macAddr,
    \* the wall clock (time.Now)
    now,
    \* the host at the other end of the channel and the frames it has left
    host, budget,
    \* Setup: "new", "failed" (SetNonblock failed) or "started"
    setup,
    \* sendEmptyReport: "off", "wait", "send", "done", and the report it built
    bpc, breport,
    \* processInputQueue: "off", "recv", "write", and the report it holds
    wpc, wreport,
    \* readOutputReport: "off", "read", "send" (then read on), "sendExit"
    \* (then return), "done", and the report it built
    rpc, rreport,
    \* history: reports sent on the queue so far, write attempts so far
    sent, written,
    \* history: calls of processSubcommandReport, reports the reader has sent,
    \* the result of the last load that was not EAGAIN (EAGAIN while every load
    \* so far was), and what the dispatcher has seen
    dispatched, readerSent, lastLoad, seenDeviceInfo, seenImuOn,
    \* history: the result of the last unix.Write, the Protocol fields the
    \* bootstrap goroutine has read, and the write attempts for reports of
    \* processSubcommandReport
    lastWrite, bread, writtenFrames,
    \* the processInputQueue goroutine of a second Setup: "off", "recv",
    \* "write", and the report it holds
    w2pc, w2report

fields == <<lastTime, elapsed, reportReceived, deviceInfoRequired, imuEnabled>>
handles == <<itr, ctrl, macAddr>>
env == <<now, host, budget>>
boot == <<bpc, breport>>
writer == <<wpc, wreport>>
reader == <<rpc, rreport>>
history == <<dispatched, readerSent, lastLoad, seenDeviceInfo, seenImuOn>>
access == <<lastWrite, bread, writtenFrames>>
writer2 == <<w2pc, w2report>>
vars == <<fields, queue, output, handles, env, setup, boot, writer, reader,
          sent, written, history, access, writer2>>

(***************************************************************************)
(* The buffered channel p.queue.                                           *)
(***************************************************************************)
\* CanSend with the comparison off by one
CanSendOffByOne(q) == Len(q) <= QueueCap

\* a send proceeds when the buffer has room
CanSend(q) == Len(q) < QueueCap

\* Send putting the report at the front of the buffer
SendFront(q, r, n) == <<[r EXCEPT !.seq = n]>> \o q

\* p.queue <- report; seq is the position of the send among all sends
Send(q, r, n) == Append(q, [r EXCEPT !.seq = n])

\* a receive proceeds when the buffer holds a report
CanRecv(q) == Len(q) > 0

\* Received taking the newest report of the buffer
ReceivedLast(q) == q[Len(q)]

\* report := <-p.queue
Received(q) == Head(q)
AfterRecv(q) == Tail(q)

(***************************************************************************)
(* Reports, as protocol.go builds them.                                    *)
(***************************************************************************)
\* AllocStandardReport()
AllocStandardReport ==
    [id |-> Unset, imu |-> Unset, timer |-> Unset, devInfo |-> Unset,
     ack |-> Unset, mac |-> Unset, seq |-> 0, frame |-> 0]

\* a goroutine that holds no report
NoReport == [AllocStandardReport EXCEPT !.id = "nil"]

\* the fields of Protocol that hold the protocol state
StateFields ==
    {"lastTime", "elapsed", "reportReceived", "deviceInfoRequired", "imuEnabled"}

\* func (p Protocol) processStandardFullReport(): the receiver is a value, so
\* the call copies *p, which reads every field of the Protocol
ReceiverCopy ==
    StateFields \cup {"queue", "output", "itr", "ctrl", "macAddr"}

\* processStandardFullReport, up to the send: p is a copy of the Protocol
StandardFullReport(imu) ==
    [AllocStandardReport EXCEPT !.id = StandardFullMode, !.imu = imu]

\* SubcommandReply with answerDeviceInfo filling the header before it sets
\* p.deviceInfoRequired
SubcommandReplyStale(sub, timer, devInfo, mac) ==
    [AllocStandardReport EXCEPT !.id = SubcommandReplies, !.timer = timer,
                                !.devInfo = IF sub = RequestDeviceInfo THEN FALSE ELSE devInfo,
                                !.ack = sub,
                                !.mac = IF sub = RequestDeviceInfo THEN mac ELSE Unset]

\* the answer* functions, up to the send
SubcommandReply(sub, timer, devInfo, mac) ==
    [AllocStandardReport EXCEPT !.id = SubcommandReplies, !.timer = timer,
                                !.devInfo = devInfo, !.ack = sub,
                                !.mac = IF sub = RequestDeviceInfo THEN mac ELSE Unset]

\* Answer with a negative acknowledgment in the default case
AnswerNack(sub, timer, devInfo, imu, mac) ==
    SubcommandReply(sub, timer, devInfo, mac)

\* the report processSubcommandReport has built when its handler reaches the
\* send: an acknowledgment for a recognized id, a plain standard report in the
\* default case
Answer(sub, timer, devInfo, imu, mac) ==
    IF sub \in RecognizedSubcommands
    THEN SubcommandReply(sub, timer, devInfo, mac)
    ELSE StandardFullReport(imu)

(***************************************************************************)
(* updateTimer                                                             *)
(***************************************************************************)
\* now.Sub(p.lastTime)
Sub(t, last) == IF last = ZeroTime THEN MaxDuration ELSE t - last

\* int64(duration/4) & 0xFF
TimerTicks(t, last) == (Sub(t, last) \div 4) % 256

\* the value of p.elapsed when updateTimer returns
UpdatedElapsed(t, last) == 255

(***************************************************************************)
(* State mutations of the answer* functions.                               *)
(***************************************************************************)
\* DeviceInfoAfter with every other handler clearing the flag
DeviceInfoAfterCleared(sub, old) == sub = RequestDeviceInfo

\* answerDeviceInfo: p.deviceInfoRequired = true; no other handler writes it
DeviceInfoAfter(sub, old) == IF sub = RequestDeviceInfo THEN TRUE ELSE old

\* ImuAfter without the test of data[0]
ImuAfterAnyByte(sub, d0, old) == IF sub = EnableImu THEN TRUE ELSE old

\* answerEnableImu: if data[0] == 0x01 { p.imuEnabled = true }
ImuAfter(sub, d0, old) == IF sub = EnableImu /\ d0 = 1 THEN TRUE ELSE old

Init ==
    /\ lastTime = ZeroTime
    /\ elapsed = 0
    /\ reportReceived = FALSE
    /\ deviceInfoRequired = FALSE
    /\ imuEnabled = FALSE
    /\ queue = <<>>
    /\ output = NoFrame
    /\ itr = NoHandle
    /\ ctrl = NoHandle
    /\ macAddr = NoMac
    /\ now = 0
    /\ host \in Hosts
    /\ budget = host.budget
    /\ setup = "new"
    /\ bpc = "off"
    /\ breport = NoReport
    /\ wpc = "off"
    /\ wreport = NoReport
    /\ rpc = "off"
    /\ rreport = NoReport
    /\ sent = 0
    /\ written = 0
    /\ dispatched = 0
    /\ readerSent = 0
    /\ lastLoad = Unset
    /\ seenDeviceInfo = FALSE
    /\ seenImuOn = FALSE
    /\ lastWrite = Unset
    /\ bread = {}
    /\ writtenFrames = 0
    /\ w2pc = "off"
    /\ w2report = NoReport

\* time passes
Tick ==
    /\ now + ClockStep <= MaxNow
    /\ now' = now + ClockStep
    /\ UNCHANGED <<fields, queue, output, handles, host, budget, setup, boot,
                   writer, reader, sent, written, history>>
    /\ UNCHANGED <<access, writer2>>

(***************************************************************************)
(* Setup                                                                   *)
(***************************************************************************)
\* unix.SetNonblock succeeds: the three goroutines are started
SetupOk ==
    /\ setup = "new"
    /\ \E i \in Handles, c \in Handles, m \in MacAddrs :
          /\ itr' = i
          /\ ctrl' = c
          /\ macAddr' = m
    /\ setup' = "started"
    /\ bpc' = "wait"
    /\ wpc' = "recv"
    /\ rpc' = "read"
    /\ UNCHANGED <<fields, queue, output, env, breport, wreport, rreport,
                   sent, written, history>>
    /\ UNCHANGED <<access, writer2>>

\* SetupFail without the return after the error is logged
SetupFailStarts ==
    /\ setup = "new"
    /\ \E i \in Handles, c \in Handles, m \in MacAddrs :
          /\ itr' = i
          /\ ctrl' = c
          /\ macAddr' = m
    /\ setup' = "failed"
    /\ bpc' = "wait"
    /\ wpc' = "recv"
    /\ rpc' = "read"
    /\ UNCHANGED <<fields, queue, output, env, breport, wreport, rreport,
                   sent, written, history>>
    /\ UNCHANGED <<access, writer2>>

\* unix.SetNonblock fails: Setup logs the error and returns
SetupFail ==
    /\ setup = "new"
    /\ \E i \in Handles, c \in Handles, m \in MacAddrs :
          /\ itr' = i
          /\ ctrl' = c
          /\ macAddr' = m
    /\ setup' = "failed"
    /\ UNCHANGED <<fields, queue, output, env, boot, writer, reader,
                   sent, written, history>>
    /\ UNCHANGED <<access, writer2>>

(***************************************************************************)
(* sendEmptyReport                                                         *)
(***************************************************************************)
\* <-ticker.C, then processStandardFullReport up to its send
BootBuild ==
    /\ bpc = "wait"
    /\ breport' = StandardFullReport(imuEnabled)
    /\ bread' = bread \cup ReceiverCopy
    /\ bpc' = "send"
    /\ UNCHANGED <<fields, queue, output, handles, env, setup, writer, reader,
                   sent, written, history>>
    /\ UNCHANGED <<lastWrite, writtenFrames, writer2>>

\* BootSend in a loop over the ticker: back to the wait after the send
BootSendLoop ==
    /\ bpc = "send"
    /\ CanSend(queue)
    /\ queue' = Send(queue, breport, sent + 1)
    /\ sent' = sent + 1
    /\ bpc' = "wait"
    /\ breport' = NoReport
    /\ UNCHANGED <<fields, output, handles, env, setup, writer, reader,
                   written, history>>
    /\ UNCHANGED <<access, writer2>>

\* p.queue <- report; ticker.Stop(); return
BootSend ==
    /\ bpc = "send"
    /\ CanSend(queue)
    /\ queue' = Send(queue, breport, sent + 1)
    /\ sent' = sent + 1
    /\ bpc' = "done"
    /\ breport' = NoReport
    /\ UNCHANGED <<fields, output, handles, env, setup, writer, reader,
                   written, history>>
    /\ UNCHANGED <<access, writer2>>

(***************************************************************************)
(* processInputQueue                                                       *)
(***************************************************************************)
\* report := <-p.queue
WriterRecv ==
    /\ wpc = "recv"
    /\ CanRecv(queue)
    /\ wreport' = Received(queue)
    /\ queue' = AfterRecv(queue)
    /\ wpc' = "write"
    /\ UNCHANGED <<fields, output, handles, env, setup, boot, reader,
                   sent, written, history>>
    /\ UNCHANGED <<access, writer2>>

\* unix.Write returns no error
WriteOk ==
    /\ wpc = "write"
    /\ written' = written + 1
    /\ writtenFrames' = writtenFrames + (IF wreport.frame > 0 THEN 1 ELSE 0)
    /\ lastWrite' = "ok"
    /\ wreport' = NoReport
    /\ wpc' = "recv"
    /\ UNCHANGED <<fields, queue, output, handles, env, setup, boot, reader,
                   sent, history>>
    /\ UNCHANGED <<bread, writer2>>

\* WriteErr with the failed write tried again
WriteErrRetry ==
    /\ wpc = "write"
    /\ written' = written + 1
    /\ writtenFrames' = writtenFrames + (IF wreport.frame > 0 THEN 1 ELSE 0)
    /\ lastWrite' = "err"
    /\ UNCHANGED <<fields, queue, output, handles, env, setup, boot, reader,
                   sent, history, writer>>
    /\ UNCHANGED <<bread, writer2>>

\* WriteErr with the loop returning on the failed write
WriteErrReturn ==
    /\ wpc = "write"
    /\ written' = written + 1
    /\ writtenFrames' = writtenFrames + (IF wreport.frame > 0 THEN 1 ELSE 0)
    /\ lastWrite' = "err"
    /\ wreport' = NoReport
    /\ wpc' = "done"
    /\ UNCHANGED <<fields, queue, output, handles, env, setup, boot, reader,
                   sent, history>>
    /\ UNCHANGED <<bread, writer2>>

\* unix.Write returns an error: it is logged and the loop goes on
WriteErr ==
    /\ wpc = "write"
    /\ written' = written + 1
    /\ writtenFrames' = writtenFrames + (IF wreport.frame > 0 THEN 1 ELSE 0)
    /\ lastWrite' = "err"
    /\ wreport' = NoReport
    /\ wpc' = "recv"
    /\ UNCHANGED <<fields, queue, output, handles, env, setup, boot, reader,
                   sent, history>>
    /\ UNCHANGED <<bread, writer2>>

(***************************************************************************)
(* readOutputReport                                                        *)
(***************************************************************************)
\* ReadWouldBlock with EAGAIN handled as any other error
ReadWouldBlockReturn ==
    /\ rpc = "read"
    /\ lastLoad' = IF lastLoad = Unset THEN EAGAIN ELSE lastLoad
    /\ rpc' = "done"
    /\ UNCHANGED <<fields, queue, output, handles, env, setup, boot, writer,
                   rreport, sent, written, dispatched, readerSent,
                   seenDeviceInfo, seenImuOn>>
    /\ UNCHANGED <<access, writer2>>

\* load returns EAGAIN: continue
ReadWouldBlock ==
    /\ rpc = "read"
    /\ lastLoad' = IF lastLoad = Unset THEN EAGAIN ELSE lastLoad
    /\ UNCHANGED <<fields, queue, output, handles, env, setup, boot, writer,
                   reader, sent, written, dispatched, readerSent,
                   seenDeviceInfo, seenImuOn>>
    /\ UNCHANGED <<access, writer2>>

\* ReadFramingError without the return after processStandardFullReport
ReadFramingErrorContinue ==
    /\ rpc = "read"
    /\ \E e \in FramingErrors : lastLoad' = e
    /\ rreport' = StandardFullReport(imuEnabled)
    /\ rpc' = "send"
    /\ UNCHANGED <<fields, queue, output, handles, env, setup, boot, writer,
                   sent, written, dispatched, readerSent,
                   seenDeviceInfo, seenImuOn>>
    /\ UNCHANGED <<access, writer2>>

\* load returns errEmptyData, errBadLengthData or errMalformedData:
\* processStandardFullReport up to its send, then return
ReadFramingError ==
    /\ rpc = "read"
    /\ \E e \in FramingErrors : lastLoad' = e
    /\ rreport' = StandardFullReport(imuEnabled)
    /\ rpc' = "sendExit"
    /\ UNCHANGED <<fields, queue, output, handles, env, setup, boot, writer,
                   sent, written, dispatched, readerSent,
                   seenDeviceInfo, seenImuOn>>
    /\ UNCHANGED <<access, writer2>>

\* ReadOtherError with the error handled as a framing error
ReadOtherErrorReset ==
    /\ rpc = "read"
    /\ lastLoad' = errOther
    /\ rreport' = StandardFullReport(imuEnabled)
    /\ rpc' = "sendExit"
    /\ UNCHANGED <<fields, queue, output, handles, env, setup, boot, writer,
                   sent, written, dispatched, readerSent,
                   seenDeviceInfo, seenImuOn>>
    /\ UNCHANGED <<access, writer2>>

\* load returns any other error: it is logged and the loop returns
ReadOtherError ==
    /\ rpc = "read"
    /\ lastLoad' = errOther
    /\ rpc' = "done"
    /\ UNCHANGED <<fields, queue, output, handles, env, setup, boot, writer,
                   rreport, sent, written, dispatched, readerSent,
                   seenDeviceInfo, seenImuOn>>
    /\ UNCHANGED <<access, writer2>>

\* ReadOtherFrame with the id taken for RumbleAndSubcommand: the dispatcher
\* runs and ends in its default case
ReadOtherFrameDispatch ==
    /\ rpc = "read"
    /\ budget > 0
    /\ \E f \in host.frames :
          /\ f.id # RumbleAndSubcommand
          /\ output' = f
    /\ budget' = budget - 1
    /\ lastLoad' = "frame"
    /\ reportReceived' = TRUE
    /\ elapsed' = UpdatedElapsed(now, lastTime)
    /\ lastTime' = now
    /\ rreport' = StandardFullReport(imuEnabled)
    /\ rpc' = "send"
    /\ UNCHANGED <<deviceInfoRequired, imuEnabled, queue,
                   handles, now, host, setup, boot, writer, sent,
                   written, dispatched, readerSent, seenDeviceInfo, seenImuOn>>
    /\ UNCHANGED <<access, writer2>>

\* load returns a frame whose id is not RumbleAndSubcommand
ReadOtherFrame ==
    /\ rpc = "read"
    /\ budget > 0
    /\ \E f \in host.frames :
          /\ f.id # RumbleAndSubcommand
          /\ output' = f
    /\ budget' = budget - 1
    /\ lastLoad' = "frame"
    /\ reportReceived' = TRUE
    /\ UNCHANGED <<lastTime, elapsed, deviceInfoRequired, imuEnabled, queue,
                   handles, now, host, setup, boot, writer, reader, sent,
                   written, dispatched, readerSent, seenDeviceInfo, seenImuOn>>
    /\ UNCHANGED <<access, writer2>>

\* load returns a RumbleAndSubcommand frame: processSubcommandReport up to
\* the send of the handler it calls
ReadSubcommand ==
    /\ rpc = "read"
    /\ budget > 0
    /\ \E f \in host.frames :
          /\ f.id = RumbleAndSubcommand
          /\ output' = f
          /\ elapsed' = UpdatedElapsed(now, lastTime)
          /\ lastTime' = now
          /\ deviceInfoRequired' = DeviceInfoAfter(f.sub, deviceInfoRequired)
          /\ imuEnabled' = ImuAfter(f.sub, f.d0, imuEnabled)
          /\ rreport' = [Answer(f.sub, elapsed', deviceInfoRequired', imuEnabled', macAddr)
                            EXCEPT !.frame = dispatched + 1]
          /\ seenDeviceInfo' = (seenDeviceInfo \/ f.sub = RequestDeviceInfo)
          /\ seenImuOn' = (seenImuOn \/ (f.sub = EnableImu /\ f.d0 = 1))
    /\ budget' = budget - 1
    /\ lastLoad' = "frame"
    /\ reportReceived' = TRUE
    /\ dispatched' = dispatched + 1
    /\ rpc' = "send"
    /\ UNCHANGED <<queue, handles, now, host, setup, boot, writer, sent,
                   written, readerSent>>
    /\ UNCHANGED <<access, writer2>>

\* ReaderSend as a send that gives up when the buffer is full
ReaderSendOrDrop ==
    /\ rpc \in {"send", "sendExit"}
    /\ IF CanSend(queue)
       THEN /\ queue' = Send(queue, rreport, sent + 1)
            /\ sent' = sent + 1
            /\ readerSent' = readerSent + 1
       ELSE UNCHANGED <<queue, sent, readerSent>>
    /\ rpc' = IF rpc = "send" THEN "read" ELSE "done"
    /\ rreport' = NoReport
    /\ UNCHANGED <<fields, output, handles, env, setup, boot, writer,
                   written, dispatched, lastLoad, seenDeviceInfo, seenImuOn>>
    /\ UNCHANGED <<access, writer2>>

\* p.queue <- report in a handler or in processStandardFullReport
ReaderSend ==
    /\ rpc \in {"send", "sendExit"}
    /\ CanSend(queue)
    /\ queue' = Send(queue, rreport, sent + 1)
    /\ sent' = sent + 1
    /\ readerSent' = readerSent + 1
    /\ rpc' = IF rpc = "send" THEN "read" ELSE "done"
    /\ rreport' = NoReport
    /\ UNCHANGED <<fields, output, handles, env, setup, boot, writer,
                   written, dispatched, lastLoad, seenDeviceInfo, seenImuOn>>
    /\ UNCHANGED <<access, writer2>>

Next ==
    \/ Tick
    \/ SetupOk
    \/ SetupFail
    \/ BootBuild
    \/ BootSend
    \/ WriterRecv
    \/ WriteOk
    \/ WriteErr
    \/ ReadWouldBlock
    \/ ReadFramingError
    \/ ReadOtherError
    \/ ReadOtherFrame
    \/ ReadSubcommand
    \/ ReaderSend

Spec == Init /\ [][Next]_vars

(***************************************************************************)
(* Setup called again on the same Protocol.  Setup has no guard: each call *)
(* starts three more goroutines, and processInputQueue never returns.  The *)
(* owning process calls it once more after readOutputReport and            *)
(* sendEmptyReport of the first call have returned.                        *)
(***************************************************************************)
\* Setup, second call, unix.SetNonblock succeeds
SetupAgain ==
    /\ setup = "started"
    /\ rpc = "done"
    /\ bpc = "done"
    /\ w2pc = "off"
    /\ \E i \in Handles, c \in Handles, m \in MacAddrs :
          /\ itr' = i
          /\ ctrl' = c
          /\ macAddr' = m
    /\ bpc' = "wait"
    /\ w2pc' = "recv"
    /\ rpc' = "read"
    /\ UNCHANGED <<fields, queue, output, env, setup, breport, writer, rreport,
                   sent, written, history, access, w2report>>

\* report := <-p.queue in the second processInputQueue
Writer2Recv ==
    /\ w2pc = "recv"
    /\ CanRecv(queue)
    /\ w2report' = Received(queue)
    /\ queue' = AfterRecv(queue)
    /\ w2pc' = "write"
    /\ UNCHANGED <<fields, output, handles, env, setup, boot, writer, reader,
                   sent, written, history, access>>

\* unix.Write returns no error in the second processInputQueue
Write2Ok ==
    /\ w2pc = "write"
    /\ written' = written + 1
    /\ writtenFrames' = writtenFrames + (IF w2report.frame > 0 THEN 1 ELSE 0)
    /\ lastWrite' = "ok"
    /\ w2report' = NoReport
    /\ w2pc' = "recv"
    /\ UNCHANGED <<fields, queue, output, handles, env, setup, boot, writer,
                   reader, sent, history, bread>>

\* unix.Write returns an error in the second processInputQueue
Write2Err ==
    /\ w2pc = "write"
    /\ written' = written + 1
    /\ writtenFrames' = writtenFrames + (IF w2report.frame > 0 THEN 1 ELSE 0)
    /\ lastWrite' = "err"
    /\ w2report' = NoReport
    /\ w2pc' = "recv"
    /\ UNCHANGED <<fields, queue, output, handles, env, setup, boot, writer,
                   reader, sent, history, bread>>

ResetupNext ==
    \/ Next
    \/ SetupAgain
    \/ Writer2Recv
    \/ Write2Ok
    \/ Write2Err


\* the writer goroutine is scheduled whenever it can receive, and every
\* unix.Write returns
FairInit ==
    /\ Init
    /\ host = FairHost

FairSpec ==
    /\ FairInit
    /\ [][Next]_vars
    /\ WF_vars(WriterRecv)
    /\ WF_vars(WriteOk \/ WriteErr)

\* the runs in which Setup is called again, with the host of FairInit
SpecResetup == FairInit /\ [][ResetupNext]_vars

(***************************************************************************)
(* Steps and positions the properties speak about.                         *)
(***************************************************************************)
\* a step that is one call of processSubcommandReport
DispatchStep == dispatched' = dispatched + 1

\* a step in which the reader's send on the queue completes
ReaderSendStep == readerSent' = readerSent + 1

\* the reader has built a report and has not sent it yet
ReaderPending == IF rpc \in {"send", "sendExit"} THEN 1 ELSE 0

\* the writer holds a report it has received and not yet written
WriterHolding == IF wpc = "write" THEN 1 ELSE 0

\* everything the reader's call chain writes
readerState == <<fields, output, budget, reader, dispatched, readerSent, lastLoad>>

\* C1: a call of processSubcommandReport for a recognized subcommand id
\* builds one report with report id SubcommandReplies whose header carries
\* deviceInfoRequired as it is after the subcommand's own mutation (true for
\* RequestDeviceInfo itself) and waits at its send; the send appends exactly
\* that one report to the queue; and the reader has sent or holds exactly
\* one report per call (plus the one of a framing error).
C1Dispatch ==
    (DispatchStep /\ output'.sub \in RecognizedSubcommands) =>
        /\ rpc' = "send"
        /\ rreport'.id = SubcommandReplies
        /\ rreport'.ack = output'.sub
        /\ rreport'.devInfo = deviceInfoRequired'
        /\ (output'.sub = RequestDeviceInfo => rreport'.devInfo = TRUE)
        /\ queue' = queue
        /\ readerSent' = readerSent

C1Send ==
    (ReaderSendStep /\ rpc = "send" /\ output.sub \in RecognizedSubcommands) =>
        /\ Len(queue') = Len(queue) + 1
        /\ SubSeq(queue', 1, Len(queue)) = queue
        /\ queue'[Len(queue')].id = SubcommandReplies
        /\ queue'[Len(queue')].devInfo = deviceInfoRequired
        /\ queue'[Len(queue')] = [rreport EXCEPT !.seq = sent']
        /\ dispatched' = dispatched

C1Count ==
    readerSent + ReaderPending
        = dispatched + (IF lastLoad \in FramingErrors THEN 1 ELSE 0)

C1_OneReplyPerSubcommand == [][C1Dispatch /\ C1Send]_vars /\ []C1Count

\* C1 witness: two recognized subcommands have been dispatched, the first
\* reply is in the queue or beyond and the reply to RequestDeviceInfo waits
C1_Witness ==
    /\ dispatched = 2
    /\ readerSent = 1
    /\ rpc = "send"
    /\ output.sub = RequestDeviceInfo
    /\ rreport.devInfo = TRUE

\* C2: deviceInfoRequired is false until the first RequestDeviceInfo is
\* dispatched and true in every state after it, and no step takes it from
\* true to false.
C2_DeviceInfoSticky ==
    [](deviceInfoRequired = seenDeviceInfo)
    /\ [][deviceInfoRequired => deviceInfoRequired']_vars

\* C2 witness: the flag is true after a later subcommand that is not
\* RequestDeviceInfo, and the reader has ended on a read error
C2_Witness ==
    /\ deviceInfoRequired
    /\ dispatched >= 2
    /\ output.sub # RequestDeviceInfo
    /\ rpc = "done"

\* C3: imuEnabled is true exactly when an EnableImu subcommand with payload
\* byte 0 equal to 1 has been dispatched.
C3_ImuOnlyByEnableImu == imuEnabled = seenImuOn

\* C3 witness: imuEnabled is true and a subcommand other than EnableImu has
\* been dispatched since
C3_Witness ==
    /\ imuEnabled
    /\ dispatched >= 2
    /\ output.id = RumbleAndSubcommand
    /\ output.sub # EnableImu

\* C3 witness of the other direction: an EnableImu whose byte is not 1 has
\* been dispatched and imuEnabled is false
C3_WitnessOff ==
    /\ ~imuEnabled
    /\ output.sub = EnableImu
    /\ output.d0 = 2

\* C4: right after an EnableImu subcommand is dispatched, imuEnabled equals
\* (payload byte 0 = 1).
C4_ImuFollowsPayload ==
    (rpc = "send" /\ output.id = RumbleAndSubcommand /\ output.sub = EnableImu)
        => (imuEnabled = (output.d0 = 1))

\* C5: the queue holds between 0 and 5 reports.
C5_QueueBounded == Len(queue) >= 0 /\ Len(queue) <= 5

\* C5 witness: the queue holds 5 reports while both producers wait to send
C5_Witness == Len(queue) = 5 /\ rpc = "send" /\ bpc = "send"

\* C6: while the queue holds 5 reports a producer that is at its send stays
\* there and nothing the reader's call chain writes changes; the queue gets
\* shorter only by the writer's receive.
C6Reader ==
    (Len(queue) = QueueCap /\ rpc \in {"send", "sendExit"}) =>
        UNCHANGED readerState

C6Boot ==
    (Len(queue) = QueueCap /\ bpc = "send") => UNCHANGED <<boot, sent>>

C6Drain ==
    (Len(queue') < Len(queue)) => (wpc = "recv" /\ wpc' = "write")

C6_ProducerSuspended == [][C6Reader /\ C6Boot /\ C6Drain]_vars

\* C6 witness: the queue is full with the bootstrap report in it, the reader
\* waits at a send with frames left to read, and the writer has not received
C6_Witness ==
    /\ Len(queue) = QueueCap
    /\ rpc = "send"
    /\ budget > 0
    /\ bpc = "done"
    /\ wpc = "recv"

\* C7: after a load that yields EmptyData, BadLengthData or MalformedData the
\* reader holds or has sent exactly one plain standard report for it, sends
\* it, and returns: no further load, no dispatch, no other send.
C7State ==
    lastLoad \in FramingErrors =>
        /\ rpc \in {"sendExit", "done"}
        /\ rpc = "sendExit" =>
              /\ rreport.id = StandardFullMode
              /\ rreport.ack = Unset
        /\ readerSent + ReaderPending = dispatched + 1

C7Step ==
    lastLoad \in FramingErrors =>
        /\ UNCHANGED <<fields, output, budget, dispatched, lastLoad>>
        /\ rpc' \in {rpc, "done"}
        /\ rpc = "done" => UNCHANGED <<reader, readerSent>>
        /\ ReaderSendStep =>
              /\ queue' = Append(queue, [rreport EXCEPT !.seq = sent'])
              /\ rpc' = "done"

C7_FramingErrorEndsReader == []C7State /\ [][C7Step]_vars

\* C7 witness: the reader has returned after a framing error and its report
\* is in the queue
C7_Witness ==
    /\ lastLoad = errMalformedData
    /\ rpc = "done"
    /\ dispatched = 1
    /\ readerSent = 2
    /\ Len(queue) > 0
    /\ queue[Len(queue)].id = StandardFullMode

\* C8: while every load so far has returned EAGAIN the reader is in its loop,
\* has dispatched nothing, has sent nothing and has changed no field.
C8_WouldBlockOnly ==
    (setup = "started" /\ lastLoad \in {Unset, EAGAIN}) =>
        /\ rpc = "read"
        /\ dispatched = 0
        /\ readerSent = 0
        /\ rreport = NoReport
        /\ reportReceived = FALSE
        /\ deviceInfoRequired = FALSE
        /\ imuEnabled = FALSE
        /\ elapsed = 0
        /\ lastTime = ZeroTime

\* C8 witness: loads have returned EAGAIN only, while the bootstrap report
\* was sent and written
C8_Witness ==
    /\ lastLoad = EAGAIN
    /\ rpc = "read"
    /\ bpc = "done"
    /\ written = 1

\* C9: a call of processSubcommandReport for an id that is not recognized
\* builds one plain standard report (report id StandardFullMode, no
\* acknowledgment), leaves deviceInfoRequired and imuEnabled alone, and after
\* its send the reader loop reads on.
C9Dispatch ==
    (DispatchStep /\ output'.sub \notin RecognizedSubcommands) =>
        /\ rpc' = "send"
        /\ rreport'.id = StandardFullMode
        /\ rreport'.id # SubcommandReplies
        /\ rreport'.ack = Unset
        /\ UNCHANGED <<deviceInfoRequired, imuEnabled>>
        /\ queue' = queue
        /\ readerSent' = readerSent

C9Send ==
    (ReaderSendStep /\ rpc = "send" /\ output.sub \notin RecognizedSubcommands) =>
        /\ queue' = Append(queue, [rreport EXCEPT !.seq = sent'])
        /\ rpc' = "read"
        /\ dispatched' = dispatched

C9_UnknownSubcommand == [][C9Dispatch /\ C9Send]_vars

\* C9 witness: the report for an unknown subcommand is the last of the queue,
\* after the flags were set, and the reader is reading again
C9_Witness ==
    /\ output.sub = UnknownSubcommand
    /\ rpc = "read"
    /\ deviceInfoRequired
    /\ Len(queue) > 0
    /\ queue[Len(queue)].id = StandardFullMode
    /\ queue[Len(queue)].seq = sent
    /\ bpc = "wait"

\* C10: write attempts follow the order of the sends: the report the writer
\* holds is the next one after those already attempted, the queue holds the
\* ones after it in order, and none is attempted twice or without a send.
C10_WriterFifo ==
    /\ wpc = "write" => wreport.seq = written + 1
    /\ \A i \in 1..Len(queue) : queue[i].seq = written + WriterHolding + i
    /\ sent = written + WriterHolding + Len(queue)

\* C10 witness: three reports were sent; the first was attempted, the writer
\* holds the second and the third is in the queue
C10_Witness ==
    /\ sent = 3
    /\ written = 1
    /\ wpc = "write"
    /\ Len(queue) = 1

\* a step that is one unix.Write that fails
WriteErrStep == written' = written + 1 /\ lastWrite' = "err"

\* C11: a write that fails leaves the writer loop running at its receive,
\* with no report in hand and the queue as it was (the report is neither
\* tried again nor sent back), and the next receive takes the head of the
\* queue, the report sent right after the failed one.
C11Err ==
    WriteErrStep =>
        /\ wpc' = "recv"
        /\ wreport' = NoReport
        /\ queue' = queue
        /\ sent' = sent

C11Next ==
    (wpc = "recv" /\ wpc' = "write") =>
        /\ wreport' = Head(queue)
        /\ queue' = Tail(queue)
        /\ wreport'.seq = written + 1

C11_WriteFailureDrops ==
    [][C11Err /\ C11Next]_vars /\ [](setup = "started" => wpc \in {"recv", "write"})

\* C11 witness: the last write failed, and the writer now holds the report
\* that was sent after the failed one while another waits in the queue
C11_Witness ==
    /\ lastWrite = "err"
    /\ written = 1
    /\ wpc = "write"
    /\ wreport.seq = 2
    /\ Len(queue) = 1

\* reports the bootstrap goroutine has sent
BootSent == sent - readerSent

\* C12: after Setup the bootstrap builds one StandardFullMode report whose
\* IMU data is set from imuEnabled as it is at that moment, sends exactly
\* that report once and has then returned for good; while every load has
\* returned EAGAIN no other report has been sent.
C12Build ==
    (bpc = "wait" /\ bpc' # "wait") =>
        /\ bpc' = "send"
        /\ breport' = StandardFullReport(imuEnabled)
        /\ breport'.id = StandardFullMode
        /\ breport'.imu = imuEnabled
        /\ queue' = queue

C12Send ==
    (bpc = "send" /\ bpc' # "send") =>
        /\ bpc' = "done"
        /\ queue' = Append(queue, [breport EXCEPT !.seq = sent'])

C12Done == (bpc = "done") => (bpc' = "done" /\ BootSent' = BootSent)

C12Count ==
    /\ BootSent = (IF bpc = "done" THEN 1 ELSE 0)
    /\ lastLoad \in {Unset, EAGAIN} => sent = BootSent

C12_BootstrapOnce == [][C12Build /\ C12Send /\ C12Done]_vars /\ []C12Count

\* C12 witness: the bootstrap has returned; its report, built after an
\* EnableImu with byte 1, is second in the queue behind the acknowledgment
C12_Witness ==
    /\ bpc = "done"
    /\ readerSent = 1
    /\ Len(queue) = 2
    /\ queue[1].id = SubcommandReplies
    /\ queue[2].id = StandardFullMode
    /\ queue[2].imu = TRUE
    /\ queue[2].frame = 0

\* C12 witness of the run in which every load returns EAGAIN: the bootstrap
\* report is the only report sent, and it was written
C12_WitnessIdle ==
    /\ bpc = "done"
    /\ lastLoad = EAGAIN
    /\ sent = 1
    /\ written = 1

\* a step in which load returns the error that is neither EAGAIN nor a
\* framing error
OtherErrorStep == lastLoad # errOther /\ lastLoad' = errOther

\* C13: a load that fails with any other error ends the reader at once: the
\* step sends nothing and changes no field, and from then on the reader holds
\* no report, has sent one report per dispatch and takes no further step.
C13Step ==
    OtherErrorStep =>
        /\ rpc' = "done"
        /\ rreport' = NoReport
        /\ UNCHANGED <<fields, output, budget, queue, sent, readerSent, dispatched>>

C13After == (lastLoad = errOther) => UNCHANGED readerState

C13State ==
    lastLoad = errOther =>
        /\ rpc = "done"
        /\ rreport = NoReport
        /\ readerSent = dispatched

C13_FatalErrorEndsReader == [][C13Step /\ C13After]_vars /\ []C13State

\* C13 witness: the reader has returned on the error after one dispatch,
\* with frames left unread, and the writer has written both reports since
C13_Witness ==
    /\ lastLoad = errOther
    /\ rpc = "done"
    /\ dispatched = 1
    /\ budget > 0
    /\ sent = 2
    /\ written = 2

\* C14: every call of processSubcommandReport leaves elapsed equal to
\* ((now - lastTime before the call) / 4) mod 256 and lastTime equal to now,
\* and an acknowledgment carries that value in its header.
C14Step ==
    DispatchStep =>
        /\ elapsed' = TimerTicks(now, lastTime)
        /\ lastTime' = now
        /\ rreport'.id = SubcommandReplies => rreport'.timer = elapsed'

C14_ElapsedDerived == [][C14Step]_vars

\* a step in which load returns a frame
FrameStep == budget' = budget - 1

\* C15: a frame whose report id is not RumbleAndSubcommand only sets
\* reportReceived: nothing is built or sent, the dispatcher is not called,
\* deviceInfoRequired, imuEnabled, elapsed and lastTime keep their values
\* and the reader is at its next load.
C15Step ==
    (FrameStep /\ output'.id # RumbleAndSubcommand) =>
        /\ reportReceived' = TRUE
        /\ rpc' = "read"
        /\ rreport' = NoReport
        /\ UNCHANGED <<deviceInfoRequired, imuEnabled, elapsed, lastTime,
                       queue, sent, readerSent, dispatched>>

C15_OtherIdsNoOp == [][C15Step]_vars

\* C15 witness: after a dispatch, a frame with another report id was loaded;
\* the fields are as the dispatch left them and the reader is at its load
C15_Witness ==
    /\ output.id \in OutputIds \ {RumbleAndSubcommand}
    /\ reportReceived
    /\ dispatched = 1
    /\ deviceInfoRequired
    /\ elapsed = 255
    /\ lastTime = 0
    /\ now = ClockStep
    /\ rpc = "read"

\* the reader goroutine is running, so it may write the state fields
ReaderLive == rpc \in {"read", "send", "sendExit"}

\* C16: the state fields are written by the reader's call chain only, and
\* of them the bootstrap goroutine reads imuEnabled only, also while the
\* reader is running.
C16Step ==
    /\ (fields' # fields) => (ReaderLive /\ rpc' \in {"read", "send"})
    /\ (bread' # bread /\ ReaderLive) =>
          (bread' \cap StateFields) \subseteq {"imuEnabled"}

C16_OnlyImuShared == [][C16Step]_vars

\* the reports on their way to the channel, oldest first: the one the writer
\* holds, the queue, the one the reader has built and not yet sent
Pipeline ==
    (IF wpc = "write" THEN <<wreport>> ELSE <<>>)
    \o queue
    \o (IF rpc \in {"send", "sendExit"} THEN <<rreport>> ELSE <<>>)

IsDispatchReport(r) == r.frame > 0

\* those of them that processSubcommandReport built; frame is the position
\* of the host frame among the dispatched frames
DispatchReports == SelectSeq(Pipeline, IsDispatchReport)

\* C17: the reports of the dispatcher are queued and written in the order
\* in which their host frames were read: those on their way are the frames
\* after the ones already attempted, in order and with none missing, and
\* the last of them is the last frame dispatched.
C17_ReplyOrder ==
    /\ \A i \in 1..Len(DispatchReports) :
          DispatchReports[i].frame = writtenFrames + i
    /\ writtenFrames + Len(DispatchReports) = dispatched

\* C17 witness: the bootstrap report sits in the queue between the reports
\* of the second and the third frame, the first having been attempted
C17_Witness ==
    /\ writtenFrames = 1
    /\ Len(queue) = 3
    /\ queue[1].frame = 2
    /\ queue[2].frame = 0
    /\ queue[3].frame = 3
    /\ bpc = "done"
    /\ lastLoad = "frame"

\* C17 witness of another position: the bootstrap report is ahead of the
\* report of the first frame
C17_WitnessFirst ==
    /\ Len(queue) = 2
    /\ queue[1].frame = 0
    /\ queue[2].frame = 1
    /\ bpc = "done"
    /\ lastLoad = "frame"

\* the most reports a run can send: one per frame, the bootstrap report and
\* the report of a framing error
MaxSent == MaxFairFrames + 2

\* C18: with the writer scheduled fairly and every write returning, each
\* report sent on the queue is in time received and has its write attempted,
\* and a full queue in time has room again, so a producer waiting at its
\* send can go on; this holds whether or not the reader has returned.
C18_EveryReportWritten ==
    /\ \A n \in 1..MaxSent : (sent >= n) ~> (written >= n)
    /\ (Len(queue) = QueueCap) ~> (Len(queue) < QueueCap)

\* C18 witness: the reader has returned on a framing error after the queue
\* had been filled, and every report sent, the last one included, was written
C18_Witness ==
    /\ rpc = "done"
    /\ lastLoad \in FramingErrors
    /\ bpc = "done"
    /\ sent = QueueCap + 2
    /\ written = sent

\* C19: when SetNonblock fails in Setup, itr, ctrl and macAddr hold the
\* arguments but no goroutine was started: nothing is ever built, sent,
\* written or loaded and no field of the protocol state changes.
C19_FailedSetupStartsNothing ==
    setup = "failed" =>
        /\ itr \in Handles
        /\ ctrl \in Handles
        /\ macAddr \in MacAddrs
        /\ bpc = "off" /\ wpc = "off" /\ rpc = "off" /\ w2pc = "off"
        /\ queue = <<>>
        /\ sent = 0 /\ written = 0
        /\ lastLoad = Unset /\ lastWrite = Unset
        /\ budget = host.budget
        /\ output = NoFrame
        /\ bread = {}
        /\ ~reportReceived /\ ~deviceInfoRequired /\ ~imuEnabled
        /\ elapsed = 0 /\ lastTime = ZeroTime

\* C19 witness: Setup has failed, the arguments are stored and time has
\* passed to the end of the clock
C19_Witness ==
    /\ setup = "failed"
    /\ itr = 3
    /\ macAddr = "AA:BB:CC:DD:EE:FF"
    /\ now = MaxNow

\* calls of Setup that started goroutines
Setups == (IF setup = "started" THEN 1 ELSE 0) + (IF w2pc # "off" THEN 1 ELSE 0)

\* C20: the queue has one consumer at all times, also after Setup is called
\* again on the same Protocol: never are two processInputQueue loops running
\* on it; and the bootstrap sends at most one report per Setup.
C20_SingleConsumer ==
    /\ ~(wpc \in {"recv", "write"} /\ w2pc \in {"recv", "write"})
    /\ BootSent <= Setups

====
